---- MODULE Spec2Model ----
(***************************************************************************)
(* A model of jenkins_job_linter/linters.py: the tri-state LintResult, the *)
(* root-tag gate of Linter.check, the shell-builder iteration of           *)
(* ShellBuilderLinter.actual_check and the three concrete linters.         *)
(*                                                                         *)
(* Text (Python str) is a sequence of one-character strings, so that       *)
(* splitlines, split, startswith and the two regular expressions are       *)
(* computed character by character.  Optional[str] is a record             *)
(* [isNone, str].                                                          *)
(***************************************************************************)
EXTENDS Naturals, Sequences, FiniteSets

VARIABLES
    tree,      \* ctx.tree: [root, timestamper, builders]
    config,    \* ctx.config: [allow_default_shebang, required_shell_options]
    linter,    \* the class of the Linter instance bound to ctx
    pc,        \* position of the call: idle, actual_check, loop, return, done, raised
    i,         \* index of the shell builder the for loop is at
    acRet,     \* what actual_check returned
    ret,       \* what check returned
    evalLog,   \* probe: the shell_check calls of the current check(), in order
    acCalls,   \* probe: the number of actual_check calls of the current check()
    runs,      \* completed check() calls on this context
    prev       \* outcome of the previous check() call on this context

vars == <<tree, config, linter, pc, i, acRet, ret, evalLog, acCalls, runs, prev>>

\* ----------------------------------------------------------------- bounds
MaxSteps == 2
MaxRuns == 2

\* ------------------------------------------------------------------- text
None == [isNone |-> TRUE, str |-> <<>>]
Some(s) == [isNone |-> FALSE, str |-> s]

Lower ==
    {"a", "b", "c", "d", "e", "f", "g", "h", "i", "j", "k", "l", "m",
     "n", "o", "p", "q", "r", "s", "t", "u", "v", "w", "x", "y", "z"}

\* The line boundaries of str.splitlines() that occur in the texts below
\* (Python knows more: \v, \f, \x1c..\x1e, \x85,  ,  ).
LineBreaks == {"\n", "\r"}

StartsWith(s, p) ==
    /\ Len(s) >= Len(p)
    /\ \A k \in 1..Len(p) : s[k] = p[k]

\* str.splitlines(): the lines without their line breaks; "\r\n" is one
\* break; no empty last line; the empty string has no line at all.
RECURSIVE SplitLinesFrom(_, _, _, _)
SplitLinesFrom(s, k, cur, acc) ==
    IF k > Len(s)
    THEN IF cur = <<>> THEN acc ELSE Append(acc, cur)
    ELSE IF s[k] \in LineBreaks
         THEN IF s[k] = "\r" /\ k < Len(s) /\ s[k + 1] = "\n"
              THEN SplitLinesFrom(s, k + 2, <<>>, Append(acc, cur))
              ELSE SplitLinesFrom(s, k + 1, <<>>, Append(acc, cur))
         ELSE SplitLinesFrom(s, k + 1, Append(cur, s[k]), acc)

splitlines(s) == SplitLinesFrom(s, 1, <<>>, <<>>)

\* str.split(sep) for a one-character sep: every piece between two
\* separators is kept, the empty ones too.
RECURSIVE SplitFrom(_, _, _, _, _)
SplitFrom(s, sep, k, cur, acc) ==
    IF k > Len(s)
    THEN Append(acc, cur)
    ELSE IF s[k] = sep
         THEN SplitFrom(s, sep, k + 1, <<>>, Append(acc, cur))
         ELSE SplitFrom(s, sep, k + 1, Append(cur, s[k]), acc)

split(s, sep) == SplitFrom(s, sep, 1, <<>>, <<>>)

\* set(str): the set of the characters of a string.
CharSet(s) == {s[k] : k \in 1..Len(s)}

\* ------------------------------------------------------------- LintResult
\* The class body of the Enum, in definition order.
LintResultDef ==
    << [name |-> "PASS", value |-> TRUE],
       [name |-> "FAIL", value |-> FALSE],
       [name |-> "SKIP", value |-> TRUE] >>

\* Enum's member lookup: a name whose value an earlier name already has is
\* an alias of that earlier member, not a member of its own.
EnumMember(n) ==
    LET k == CHOOSE j \in 1..Len(LintResultDef) : LintResultDef[j].name = n
        first == CHOOSE j \in 1..Len(LintResultDef) :
                    /\ LintResultDef[j].value = LintResultDef[k].value
                    /\ \A m \in 1..(j - 1) :
                          LintResultDef[m].value # LintResultDef[k].value
    IN  LintResultDef[first]

PASS == EnumMember("PASS")
FAIL == EnumMember("FAIL")
SKIP == EnumMember("SKIP")

\* The members of the enumeration (what iterating LintResult yields).
LintResult == {EnumMember(LintResultDef[k].name) : k \in 1..Len(LintResultDef)}

\* ---------------------------------------------------------------- linters
Linters == {"EnsureTimestamps", "CheckForEmptyShell", "CheckShebang"}
ShellBuilderLinters == {"CheckForEmptyShell", "CheckShebang"}

\* A root_tag that names another kind of document.
root_tag_matrix(l) == "matrix-project"

\* JobLinter.root_tag
root_tag(l) == "project"

\* A call either returns a (LintResult, Optional[str]) pair or raises.
Returned(pair) == [raised |-> FALSE, value |-> pair]
Raised == [raised |-> TRUE, value |-> <<>>]
NoValue == <<>>
NoOutcome == [raised |-> FALSE, value |-> <<>>]

\* EnsureTimestamps.actual_check
EnsureTimestamps_actual_check(t) ==
    IF t.timestamper THEN <<PASS, None>> ELSE <<FAIL, None>>

\* CheckForEmptyShell.shell_check
CheckForEmptyShell_shell_check(shell_script) ==
    IF shell_script.isNone
    THEN Returned(<<FAIL, None>>)
    ELSE Returned(<<PASS, None>>)

\* ----------------------------------------------------------- CheckShebang
\* The literal strings of the class.
ShebangMarker ==
    <<"#", "!">>
BinDir ==
    <<"#", "!", "/", "b", "i", "n", "/">>
JenkinsDefaultText ==
    <<"S", "h", "e", "b", "a", "n", "g", " ", "i", "s", " ", "J", "e",
      "n", "k", "i", "n", "s", "'", " ", "d", "e", "f", "a", "u", "l",
      "t">>
ShebangIsText ==
    <<"S", "h", "e", "b", "a", "n", "g", " ", "i", "s", " ">>

\* re.match(r'#!/bin/[a-z]*sh', first_line) is not None: the pattern is
\* matched at the start of the line and need not reach its end.
MatchesShellShebang(first_line) ==
    /\ StartsWith(first_line, BinDir)
    /\ \E k \in 0..Len(first_line) :
          /\ Len(BinDir) + k + 2 <= Len(first_line)
          /\ \A j \in 1..k : first_line[Len(BinDir) + j] \in Lower
          /\ first_line[Len(BinDir) + k + 1] = "s"
          /\ first_line[Len(BinDir) + k + 2] = "h"

\* re.match(r'-([a-z]+)', part): None, or group(1), the longest run of
\* lowercase letters that follows the leading '-'.
MatchShellOptions(part) ==
    IF Len(part) >= 2 /\ part[1] = "-" /\ part[2] \in Lower
    THEN LET rest == Tail(part)
             n == CHOOSE k \in 1..Len(rest) :
                     /\ \A j \in 1..k : rest[j] \in Lower
                     /\ (k = Len(rest) \/ rest[k + 1] \notin Lower)
         IN  Some(SubSeq(rest, 1, n))
    ELSE None

\* CheckShebang._check_shell_shebang
check_shell_shebang(required_shell_options_set, first_line) ==
    LET line_parts == split(first_line, " ")
    IN  IF Len(line_parts) < 2
        THEN FALSE
        ELSE LET shell_options_match == MatchShellOptions(line_parts[2])
             IN  IF shell_options_match.isNone
                 THEN FALSE
                 ELSE required_shell_options_set
                          \subseteq CharSet(shell_options_match.str)

\* A _handle_jenkins_default that does not consult the configuration.
handle_jenkins_default_skip(cfg) == <<SKIP, None>>

\* CheckShebang._handle_jenkins_default
handle_jenkins_default(cfg) ==
    IF cfg.allow_default_shebang
    THEN <<SKIP, None>>
    ELSE <<FAIL, Some(JenkinsDefaultText)>>

\* CheckShebang.shell_check; splitlines()[0] of a string without lines
\* raises IndexError.
CheckShebang_shell_check(shell_script, cfg) ==
    IF shell_script.isNone
    THEN Returned(<<SKIP, None>>)
    ELSE IF splitlines(shell_script.str) = <<>>
    THEN Raised
    ELSE LET first_line == splitlines(shell_script.str)[1]
             required_shell_options_set ==
                 CharSet(cfg.required_shell_options)
         IN  IF ~StartsWith(first_line, ShebangMarker)
             THEN Returned(handle_jenkins_default(cfg))
             ELSE IF ~MatchesShellShebang(first_line)
             THEN Returned(<<SKIP, None>>)
             ELSE IF required_shell_options_set = {}
             THEN Returned(<<PASS, None>>)
             ELSE IF ~check_shell_shebang(required_shell_options_set,
                                          first_line)
             THEN Returned(<<FAIL, Some(ShebangIsText \o first_line)>>)
             ELSE Returned(<<PASS, None>>)

\* The shell_check of the linter class l.
shell_check(l, shell_script, cfg) ==
    IF l = "CheckForEmptyShell"
    THEN CheckForEmptyShell_shell_check(shell_script)
    ELSE CheckShebang_shell_check(shell_script, cfg)

\* ---------------------------------------------------------------- inputs
\* The texts of the shell builders the model draws from.  A shebang line
\* is put together from an interpreter, a separator and an option word.
\* interpreters after the shebang marker
Interpreters ==
    { <<"#", "!", "/", "b", "i", "n", "/", "s", "h">>,   \* '#!/bin/sh'
      <<"#", "!", "/", "b", "i", "n", "/", "b", "a", "s", "h">>,   \* '#!/bin/bash'
      <<"#", "!", "/", "b", "i", "n", "/", "s", "h", "r", "e", "d">>,   \* '#!/bin/shred'
      <<"#", "!", "/", "b", "i", "n", "/", "c", "a", "t">>,   \* '#!/bin/cat'
      <<"#", "!", "/", "u", "s", "r", "/", "b", "i", "n", "/", "e", "n",
        "v">> }   \* '#!/usr/bin/env'
\* what stands between the interpreter and the option word
Separators ==
    { <<>>,   \* ''
      <<" ">>,   \* ' '
      <<" ", " ">>,   \* '  '
      <<"\t">> }   \* '\t'
\* option words
OptionWords ==
    { <<>>,   \* ''
      <<"-", "e", "u", "x">>,   \* '-eux'
      <<"-", "x", "u", "e">>,   \* '-xue'
      <<"-", "e", "u">>,   \* '-eu'
      <<"-", "e", "e", "u", "x", "v">>,   \* '-eeuxv'
      <<"-", "e", "u", "x", "V">>,   \* '-euxV'
      <<"e", "u", "x">>,   \* 'eux'
      <<"-">>,   \* '-'
      <<"p", "y", "t", "h", "o", "n">> }   \* 'python'
\* what follows the first line
Bodies ==
    { <<>>,   \* ''
      <<"\n", "e", "c", "h", "o">> }   \* '\necho'
\* scripts without a shebang line
PlainScripts ==
    { <<>>,   \* ''
      <<"\n", "e", "c", "h", "o">>,   \* '\necho'
      <<"e", "c", "h", "o">>,   \* 'echo'
      <<"\r", "\n">>,   \* '\r\n'
      <<"#", "e", "c", "h", "o">> }   \* '#echo'

ShebangScripts ==
    {a \o b \o c \o d :
        a \in Interpreters, b \in Separators, c \in OptionWords, d \in Bodies}

\* Element.text of a command element: None or a string.
ScriptTexts == {None} \cup {Some(s) : s \in ShebangScripts \cup PlainScripts}

\* texts of the steps of the documents with several steps
DocScripts ==
    { <<>>,   \* ''
      <<"e", "c", "h", "o">>,   \* 'echo'
      <<"#", "!", "/", "b", "i", "n", "/", "b", "a", "s", "h", " ", "-",
        "e", "u", "x", "\n", "e", "c", "h", "o">>,   \* '#!/bin/bash -eux\necho'
      <<"#", "!", "/", "b", "i", "n", "/", "s", "h", " ", "-", "e", "u">>,   \* '#!/bin/sh -eu'
      <<"#", "!", "/", "u", "s", "r", "/", "b", "i", "n", "/", "e", "n",
        "v", " ", "p", "y", "t", "h", "o", "n">> }   \* '#!/usr/bin/env python'

DocTexts == {None} \cup {Some(s) : s \in DocScripts}

RootTags == {"project", "matrix-project", "hudson.model.ListView"}

RequiredOptions == { <<"e", "u", "x">>, <<"e">>, <<>> }

Configs ==
    [allow_default_shebang : BOOLEAN, required_shell_options : RequiredOptions]

SeqsUpTo(S, n) == UNION {[1..k -> S] : k \in 0..n}

\* Documents of up to MaxSteps shell builders, under any root tag.
Documents ==
    [root : RootTags, timestamper : BOOLEAN,
     builders : SeqsUpTo(DocTexts, MaxSteps)]

\* Job documents of one shell builder, its text any of ScriptTexts.
OneStepDocuments ==
    [root : {"project"}, timestamper : {FALSE},
     builders : {<<t>> : t \in ScriptTexts}]

\* ------------------------------------------------------------ the machine
\* A findall whose result is used up by the first check().
findall_once(t) == IF runs = 0 THEN t.builders ELSE <<>>

\* tree.findall('./builders/hudson.tasks.Shell/command'), in document order.
findall(t) == t.builders

\* The comparison of Linter.check.
RootTagDiffers(t, l) == t.root # root_tag(l)

\* A loop that never returns early.
IsFailure_never(result) == FALSE

\* The test that ends the loop of ShellBuilderLinter.actual_check.
IsFailure(result) == result = FAIL

\* What the finished (or aborted) call of check() gave its caller.
Outcome == IF pc = "raised" THEN Raised ELSE Returned(ret)

\* A Linter instance bound to its LintContext, no check() called yet.
Init ==
    /\ tree \in Documents \cup OneStepDocuments
    /\ config \in Configs
    /\ linter \in Linters
    /\ pc = "idle"
    /\ i = 0
    /\ acRet = NoValue
    /\ ret = NoValue
    /\ evalLog = <<>>
    /\ acCalls = 0
    /\ runs = 0
    /\ prev = NoOutcome

\* Linter.check up to its return or its call of actual_check.
CheckEnter ==
    /\ pc = "idle"
    /\ runs < MaxRuns
    /\ IF RootTagDiffers(tree, linter)
       THEN /\ ret' = <<SKIP, None>>
            /\ pc' = "done"
            /\ UNCHANGED acCalls
       ELSE /\ pc' = "actual_check"
            /\ acCalls' = acCalls + 1
            /\ UNCHANGED ret
    /\ UNCHANGED <<tree, config, linter, i, acRet, evalLog, runs, prev>>

\* EnsureTimestamps.actual_check
ActualCheckTimestamps ==
    /\ pc = "actual_check"
    /\ linter = "EnsureTimestamps"
    /\ acRet' = EnsureTimestamps_actual_check(tree)
    /\ pc' = "return"
    /\ UNCHANGED <<tree, config, linter, i, ret, evalLog, acCalls, runs, prev>>

\* ShellBuilderLinter.actual_check up to the first turn of its loop.
ActualCheckShell ==
    /\ pc = "actual_check"
    /\ linter \in ShellBuilderLinters
    /\ LET shell_builders == findall(tree)
       IN  IF shell_builders = <<>>
           THEN /\ acRet' = <<SKIP, None>>
                /\ pc' = "return"
                /\ UNCHANGED i
           ELSE /\ pc' = "loop"
                /\ i' = 1
                /\ UNCHANGED acRet
    /\ UNCHANGED <<tree, config, linter, ret, evalLog, acCalls, runs, prev>>

\* One turn of the loop of ShellBuilderLinter.actual_check: shell_check on
\* the builder the loop is at, then return, go on, or pass the exception on.
ShellStep ==
    /\ pc = "loop"
    /\ LET shell_builders == findall(tree)
           shell_script == shell_builders[i]
           out == shell_check(linter, shell_script, config)
       IN  /\ evalLog' = Append(evalLog,
                  [idx |-> i, script |-> shell_script, out |-> out])
           /\ IF out.raised
              THEN /\ pc' = "raised"
                   /\ UNCHANGED <<i, acRet>>
              ELSE IF IsFailure(out.value[1])
              THEN /\ acRet' = out.value
                   /\ pc' = "return"
                   /\ UNCHANGED i
              ELSE IF i = Len(shell_builders)
              THEN /\ acRet' = <<PASS, None>>
                   /\ pc' = "return"
                   /\ UNCHANGED i
              ELSE /\ i' = i + 1
                   /\ UNCHANGED <<pc, acRet>>
    /\ UNCHANGED <<tree, config, linter, ret, acCalls, runs, prev>>

\* Linter.check returns what actual_check returned.
CheckReturn ==
    /\ pc = "return"
    /\ ret' = acRet
    /\ pc' = "done"
    /\ UNCHANGED <<tree, config, linter, i, acRet, evalLog, acCalls, runs, prev>>

\* The caller has the outcome; the instance can be asked again.
Finish ==
    /\ pc \in {"done", "raised"}
    /\ prev' = Outcome
    /\ runs' = runs + 1
    /\ pc' = "idle"
    /\ i' = 0
    /\ acRet' = NoValue
    /\ ret' = NoValue
    /\ evalLog' = <<>>
    /\ acCalls' = 0
    /\ UNCHANGED <<tree, config, linter>>

Next ==
    \/ CheckEnter
    \/ ActualCheckTimestamps
    \/ ActualCheckShell
    \/ ShellStep
    \/ CheckReturn
    \/ Finish

Spec == Init /\ [][Next]_vars

\* ================================================================ claims
\* The first line of a present script that has one.
HasFirstLine(t) == ~t.isNone /\ splitlines(t.str) # <<>>
FirstLine(t) == splitlines(t.str)[1]

\* The entries of the probe of the current call.
Evaluated == {evalLog[j] : j \in 1..Len(evalLog)}
FailsAt(j) == ~evalLog[j].out.raised /\ evalLog[j].out.value[1] = FAIL

\* C1: for every JobLinter and every document whose root tag is not
\* 'project', check() returns (SKIP, None) and neither actual_check nor
\* shell_check is called; under the root tag 'project' check() returns what
\* its one call of actual_check returned.
C1_RootTagGate ==
    /\ tree.root # "project" =>
          /\ acCalls = 0
          /\ evalLog = <<>>
          /\ pc \in {"idle", "done"}
          /\ (pc = "done" => ret = <<SKIP, None>>)
    /\ (tree.root = "project" /\ pc = "done") =>
          /\ acCalls = 1
          /\ acRet # NoValue
          /\ ret = acRet

\* C1's case: a document of another root tag that has shell builders was
\* checked, and none of them was looked at.
C1_Witness ==
    /\ pc = "done"
    /\ tree.root = "matrix-project"
    /\ Len(findall(tree)) >= 1
    /\ linter = "CheckShebang"

\* C2: LintResult has exactly three members PASS, FAIL and SKIP, pairwise
\* distinct, and the success projection is PASS -> true, SKIP -> true,
\* FAIL -> false.
C2_ThreeDistinctVariants ==
    /\ Cardinality(LintResult) = 3
    /\ PASS # FAIL
    /\ SKIP # FAIL
    /\ SKIP # PASS
    /\ PASS.value = TRUE
    /\ SKIP.value = TRUE
    /\ FAIL.value = FALSE
    /\ (pc = "done" => ret[1] \in {PASS, FAIL, SKIP})

\* C3: the shell builders are evaluated in document order, each once; when
\* step k is the first whose shell_check yields FAIL, actual_check returns
\* step k's (result, explanation) and no step after k is evaluated.
C3_ShortCircuit ==
    linter \in ShellBuilderLinters =>
        /\ \A j \in 1..Len(evalLog) :
              /\ evalLog[j].idx = j
              /\ evalLog[j].script = tree.builders[j]
        /\ \A j \in 1..Len(evalLog) :
              FailsAt(j) =>
                  /\ j = Len(evalLog)
                  /\ pc \in {"return", "done"}
                  /\ acRet = evalLog[j].out.value
                  /\ (pc = "done" => ret = evalLog[j].out.value)

\* C3's case: the first of several steps failed, check() returned, and the
\* later steps were never evaluated.
C3_Witness ==
    /\ pc = "done"
    /\ linter \in ShellBuilderLinters
    /\ Len(tree.builders) >= 2
    /\ Len(evalLog) = 1
    /\ FailsAt(1)

\* C4: ShellBuilderLinter.actual_check returns (SKIP, None) if and only if
\* the document has no shell builder; with at least one and no FAIL among
\* them it returns (PASS, None), which is not SKIP.
C4_SkipIffNoSteps ==
    (linter \in ShellBuilderLinters /\ pc = "return") =>
        /\ (acRet = <<SKIP, None>>) <=> (tree.builders = <<>>)
        /\ (tree.builders # <<>> /\ \A j \in 1..Len(evalLog) : ~FailsAt(j))
              => acRet = <<PASS, None>>

\* Whitespace, and str.split() without a separator: the words between runs
\* of whitespace.
Whitespace == {" ", "\t", "\n", "\r"}
RECURSIVE WordsFrom(_, _, _, _)
WordsFrom(s, k, cur, acc) ==
    IF k > Len(s)
    THEN IF cur = <<>> THEN acc ELSE Append(acc, cur)
    ELSE IF s[k] \in Whitespace
         THEN WordsFrom(s, k + 1, <<>>,
                        IF cur = <<>> THEN acc ELSE Append(acc, cur))
         ELSE WordsFrom(s, k + 1, Append(cur, s[k]), acc)
Words(s) == WordsFrom(s, 1, <<>>, <<>>)

\* C5: for a first line that is a shell shebang and a non-empty set R of
\* required options, with the line split on whitespace: (PASS, None) if and
\* only if there is a second word, it is '-' followed by lowercase letters,
\* and R is a subset of those letters; otherwise (FAIL, "Shebang is <line>").
C5_SubsetOnWhitespaceSplit ==
    linter = "CheckShebang" =>
        \A e \in Evaluated :
            (/\ HasFirstLine(e.script)
             /\ MatchesShellShebang(FirstLine(e.script))
             /\ CharSet(config.required_shell_options) # {}) =>
                LET line == FirstLine(e.script)
                    words == Words(line)
                    R == CharSet(config.required_shell_options)
                    passes ==
                        /\ Len(words) >= 2
                        /\ ~MatchShellOptions(words[2]).isNone
                        /\ R \subseteq CharSet(MatchShellOptions(words[2]).str)
                IN  e.out = Returned(IF passes
                                     THEN <<PASS, None>>
                                     ELSE <<FAIL, Some(ShebangIsText \o line)>>)

\* C6: CheckForEmptyShell.shell_check returns (FAIL, None) for a step whose
\* text is None or the empty string and (PASS, None) for any other text; a
\* 'project' document without shell steps gets (SKIP, None) from check().
C6_EmptyShellFails ==
    linter = "CheckForEmptyShell" =>
        /\ \A e \in Evaluated :
              e.out = Returned(IF e.script.isNone \/ e.script.str = <<>>
                               THEN <<FAIL, None>>
                               ELSE <<PASS, None>>)
        /\ (pc = "done" /\ tree.root = "project" /\ tree.builders = <<>>)
              => ret = <<SKIP, None>>

\* The interpreter of a shebang line: what stands between '#!' and the
\* first whitespace.
Interpreter(line) ==
    LET rest == SubSeq(line, Len(ShebangMarker) + 1, Len(line))
        stops == {k \in 1..Len(rest) : rest[k] \in Whitespace}
        n == IF stops = {} THEN Len(rest)
             ELSE (CHOOSE k \in stops : \A m \in stops : k <= m) - 1
    IN  SubSeq(rest, 1, n)

\* A path under /bin/ whose name ends in 'sh'.
IsBinShell(path) ==
    /\ StartsWith(path, <<"/", "b", "i", "n", "/">>)
    /\ Len(path) >= Len(<<"/", "b", "i", "n", "/">>) + 2
    /\ path[Len(path) - 1] = "s"
    /\ path[Len(path)] = "h"
    /\ \A k \in (Len(<<"/", "b", "i", "n", "/">>) + 1)..Len(path) : path[k] # "/"

\* C8: a first line that starts with '#!' is treated as a shell shebang if
\* and only if its interpreter is a path under /bin/ whose name ends in
\* 'sh'; every other shebang gets (SKIP, None) under every configuration.
C8_ShellShebangOnly ==
    linter = "CheckShebang" =>
        \A e \in Evaluated :
            (/\ HasFirstLine(e.script)
             /\ StartsWith(FirstLine(e.script), ShebangMarker)) =>
                LET line == FirstLine(e.script)
                    R == CharSet(config.required_shell_options)
                IN  IF IsBinShell(Interpreter(line))
                    THEN e.out = Returned(
                             IF R = {} \/ check_shell_shebang(R, line)
                             THEN <<PASS, None>>
                             ELSE <<FAIL, Some(ShebangIsText \o line)>>)
                    ELSE e.out = Returned(<<SKIP, None>>)

\* C9: check() changes neither the document tree nor the configuration,
\* and every further check() on the same LintContext ends as the one
\* before it did.
C9_Idempotent ==
    [][/\ tree' = tree
       /\ config' = config
       /\ (pc' \in {"done", "raised"} /\ runs' >= 1) => Outcome' = prev'
      ]_vars

\* C9's case: a second check() of a document with a failing step has
\* ended, as the first did.
C9_Witness ==
    /\ runs >= 1
    /\ pc = "done"
    /\ linter = "CheckShebang"
    /\ Len(tree.builders) >= 2
    /\ ret[1] = FAIL
    /\ prev = Returned(ret)

\* C10: CheckShebang.shell_check returns a pair for every script text and
\* every configuration, so check() never ends in an error.
C10_NeverRaises ==
    /\ pc # "raised"
    /\ \A e \in Evaluated : ~e.out.raised

====
